---- MODULE Spec2Model ----
(***************************************************************************)
(* The Call of packages/plugin-phone/src/call.js: two Calls ("a", the      *)
(* outbound Call made by dial, and "b", the inbound Call made when the     *)
(* session notification arrives), the session service they talk to, and    *)
(* the messages in flight between them.                                    *)
(*                                                                         *)
(* A session snapshot ("locus") is a record                                *)
(*   url      locus.url: "session" for the call of the model, "other" for  *)
(*            any other call of the same user                              *)
(*   seq      position in the service's ordering (0: no locus)             *)
(*   self     state of locus.self, or "none"                               *)
(*   remote   state of the other participant, or "none"                    *)
(*   dev      locus.self is joined with this device                        *)
(*   active   locus.fullState is active                                    *)
(*   creator  locus.self created the session                               *)
(*   corr     correlationId of this device's record in locus.self.devices  *)
(*   audio    locus.self.status.audioStatus, or "none"                     *)
(*   video    locus.self.status.videoStatus, or "none"                     *)
(*                                                                         *)
(* Derived properties are recomputed from locus on every assignment, as    *)
(* their `deps` declare; change handlers and lifecycle listeners run only  *)
(* while they are attached (this.off() detaches them).                     *)
(*                                                                         *)
(* Besides the fields of the Call, a Call record keeps what the claims     *)
(* speak of: `emitted`, the events the last handler run on it triggered;   *)
(* `observed`, every lifecycle event triggered so far; `hangupLog`, one    *)
(* entry per hangup() with the pending state it met, the round trip it     *)
(* took and how it settled; `late`, whether a snapshot replaced the locus  *)
(* while status was disconnected; `ended`, whether hangup() has stopped    *)
(* the media and no join has begun since; `fedEnded`, whether a join's     *)
(* response handed its answer to media.acceptAnswer() while `ended`;       *)
(* `last`, the consumer operation that the latest step on the Call was, in *)
(* the specification that records invocations that do nothing; `errors`,   *)
(* how many times dial's catch has triggered `error`; `changes`, one entry *)
(* per start/stop/toggle sending invocation: the medium and value it set,  *)
(* the sending flags it met, whether an earlier one was unsettled then,    *)
(* how far it got, and the flags and status strings the Call had when its  *)
(* result resolved; `pushed`, the mute flags of the updateMedia requests   *)
(* the Call has issued, in order; `receives`, one entry per start/stop/    *)
(* toggle receiving invocation: the medium and value it set and whether    *)
(* its result has resolved.                                                *)
(*                                                                         *)
(* Of the media adapter the Call keeps media.audio and media.video         *)
(* (`audio`, `video`: what was asked for) and media.sendingAudio and       *)
(* media.sendingVideo (`sendingAudio`, `sendingVideo`: what is sent, which *)
(* the Call's derived properties of the same name mirror), and likewise    *)
(* media.offerToReceiveAudio/Video (`offerToReceive`) and                  *)
(* media.receivingAudio/Video (`receiving`).                               *)
(* Streams are numbered as they are made (`minted`): `streams` holds the   *)
(* numbers of localMediaStream and remoteMediaStream, `urlOf` the number   *)
(* of the stream that localMediaStreamUrl / remoteMediaStreamUrl was       *)
(* created for, and `urls` every object URL created and not yet revoked.   *)
(* `constraintMode` is media.videoConstraint.facingMode.exact, `awaiting`  *)
(* the facing modes of the toggles that wait for `answeraccepted`,         *)
(* `thrown` the error the last invocation threw, `refetches` how many      *)
(* times the reconciliation of a fetched snapshot fetched again.           *)
(* An event of another call that reaches the Call is recorded in `last`    *)
(* as "foreign", and `thrown` is "device" when its handler threw.          *)
(* Of the renegotiations that `negotiationneeded` starts the Call record   *)
(* keeps how many there were (`renegs`), how far the latest one is         *)
(* (`stage`), the steps it took so far, in order (`trail`), the errors its *)
(* poll has counted (`pollErrors`) and, once it reached                    *)
(* media.acceptAnswer(), the sequence number of the snapshot it polled and *)
(* of the session whose remote description it handed over (`fed`).         *)
(***************************************************************************)
EXTENDS Naturals, Sequences, FiniteSets, TLC

VARIABLES call, net, srv, used

vars == <<call, net, srv, used>>

\* ------------------------------------------------------------------ bounds
MaxOps == 3      \* consumer invocations (answer, acknowledge, hangup, reject) that act
MaxFail == 1     \* round trips the session service fails
MaxFetch == 2    \* FETCH verdicts of the comparator in a run
MaxSeq == 2      \* sequence numbers of the snapshots of SpecStatus
MaxToggles == 2  \* start/stop/toggle sending invocations per Call
MaxReneg == 1    \* negotiationneeded signals of the media adapter per Call

Calls == {"a", "b"}

Other(c) == IF c = "a" THEN "b" ELSE "a"

PStates == {"IDLE", "NOTIFIED", "JOINED", "LEFT", "DECLINED"}

NoCorr == [by |-> "none", k |-> 0]

NoLocus ==
  [url |-> "none", seq |-> 0, self |-> "none", remote |-> "none", dev |-> FALSE,
   active |-> FALSE, creator |-> FALSE, corr |-> NoCorr,
   audio |-> "none", video |-> "none"]

\* ------------------------------------------------- derived properties
direction(l) == IF l = NoLocus THEN "out" ELSE IF l.creator THEN "out" ELSE "in"

joinedOnThisDevice(l) == l # NoLocus /\ l.dev

participantIsJoined(p) == p = "JOINED"

hasDevice(l) == l # NoLocus /\ l.self # "none" /\ l.corr # NoCorr

hasMediaConnection(l) == hasDevice(l) /\ l.dev

activeParticipantsCount(l) ==
  (IF l.self = "JOINED" THEN 1 ELSE 0) + (IF l.remote = "JOINED" THEN 1 ELSE 0)

isActive(l) == l # NoLocus /\ l.active

StatusDeclinedFirst(l) ==
  IF l.remote # "none" /\ l.self # "none"
        /\ (l.remote = "LEFT" \/ l.self = "LEFT" \/ l.remote = "DECLINED")
    THEN "disconnected"
  ELSE IF joinedOnThisDevice(l) /\ l.remote # "none" /\ participantIsJoined(l.remote)
    THEN "connected"
  ELSE IF l.remote # "none" /\ l.self # "none" /\ l.remote = "NOTIFIED"
    THEN "ringing"
  ELSE "initiated"

StatusNoRinging(l) ==
  IF joinedOnThisDevice(l) /\ l.remote # "none" /\ participantIsJoined(l.remote)
    THEN "connected"
  ELSE IF l.remote # "none" /\ l.self # "none"
    THEN IF l.remote = "LEFT" \/ l.self = "LEFT" THEN "disconnected"
         ELSE IF l.remote = "DECLINED" THEN "disconnected"
         ELSE "initiated"
  ELSE "initiated"

StatusNoDecline(l) ==
  IF joinedOnThisDevice(l) /\ l.remote # "none" /\ participantIsJoined(l.remote)
    THEN "connected"
  ELSE IF l.remote # "none" /\ l.self # "none"
    THEN IF l.remote = "LEFT" \/ l.self = "LEFT" THEN "disconnected"
         ELSE IF l.remote = "NOTIFIED" THEN "ringing"
         ELSE "initiated"
  ELSE "initiated"

Status(l) ==
  IF joinedOnThisDevice(l) /\ l.remote # "none" /\ participantIsJoined(l.remote)
    THEN "connected"
  ELSE IF l.remote # "none" /\ l.self # "none"
    THEN IF l.remote = "LEFT" \/ l.self = "LEFT" THEN "disconnected"
         ELSE IF l.remote = "DECLINED" THEN "disconnected"
         ELSE IF l.remote = "NOTIFIED" THEN "ringing"
         ELSE "initiated"
  ELSE "initiated"


\* ------------------------------------------------------------- the Call
\* audioMuted and videoMuted of an updateMedia request; a pair of media flags
NoFlags == [audio |-> FALSE, video |-> FALSE]

\* no stream on either side (streams are told apart by a number, 0 for none)
NoRefs == [local |-> 0, remote |-> 0]

NewCall(c, l, made) ==
  [id |-> c, exists |-> made, dialed |-> FALSE,
   locus |-> l, status |-> Status(l), correlationId |-> NoCorr,
   listening |-> TRUE, mercury |-> TRUE,
   locusJoinInFlight |-> FALSE, locusLeaveInFlight |-> FALSE,
   hangupFlight |-> FALSE, rejectFlight |-> FALSE, waitLocus |-> FALSE,
   peer |-> FALSE, mediaLocal |-> FALSE, mediaRemote |-> FALSE,
   localMediaStream |-> FALSE, localUrl |-> FALSE, remoteUrl |-> FALSE,
   emitted |-> <<>>, observed |-> {},
   joins |-> 0, hangupLog |-> {}, late |-> FALSE,
   ended |-> FALSE, fedEnded |-> FALSE, last |-> "none",
   errors |-> 0,
   audio |-> FALSE, video |-> FALSE, sendingAudio |-> FALSE, sendingVideo |-> FALSE,
   updateFlight |-> FALSE, changes |-> <<>>, pushed |-> <<>>,
   offerToReceive |-> NoFlags, receiving |-> NoFlags, receives |-> <<>>,
   minted |-> 0, streams |-> NoRefs, urlOf |-> NoRefs, urls |-> {},
   facingMode |-> "none", constraintMode |-> "none", awaiting |-> <<>>,
   flips |-> 0, thrown |-> "none", refetches |-> 0,
   renegs |-> 0, stage |-> "idle", pollErrors |-> 0, trail |-> <<>>,
   fed |-> [polled |-> 0, from |-> 0]]

\* A message in flight. dir "srv": a request to the session service; dir "cli":
\* a response, a pushed event (op "event") or the resolution of a local
\* asynchronous step (op "offer") on its way to the Call.
Msg(dir, c, op, chain, loc, ok, corr) ==
  [dir |-> dir, call |-> c, op |-> op, chain |-> chain, loc |-> loc,
   ok |-> ok, corr |-> corr, flags |-> NoFlags, n |-> 0]

RECURSIVE Slot(_, _, _)
Slot(msgs, m, k) ==
  IF [m EXCEPT !.n = k] \in msgs THEN Slot(msgs, m, k + 1) ELSE [m EXCEPT !.n = k]

RECURSIVE SendAll(_, _)
SendAll(msgs, out) ==
  IF out = {} THEN msgs
  ELSE LET m == CHOOSE y \in out : TRUE
       IN SendAll(msgs \cup {Slot(msgs, m, 0)}, out \ {m})

\* A handler runs on x = [s |-> the Call, out |-> the requests it has issued].
\* Then(v, F) is F applied to v: one step of a handler after another.
Then(v, F(_)) == CHOOSE r \in {F(y) : y \in {v}} : TRUE

Ctx(s) == [s |-> s, out |-> {}]

Issue(x, m) == [x EXCEPT !.out = @ \cup {m}]

\* ---------------------------------------------------------------- media
\* URL.revokeObjectURL of the side's current URL, then createObjectURL of the
\* stream n, or unset when there is none
swapUrlKeeps(s, side, n) ==
  [s EXCEPT !.urls = @ \cup (IF n # 0 THEN {[side |-> side, of |-> n]} ELSE {}),
            !.urlOf[side] = n]

swapUrl(s, side, n) ==
  [s EXCEPT !.urls = (@ \ {[side |-> side, of |-> s.urlOf[side]]})
                       \cup (IF n # 0 THEN {[side |-> side, of |-> n]} ELSE {}),
            !.urlOf[side] = n]

\* change:media.localMediaStream and change:remoteMediaStream handlers
setMediaLocal(s, v) ==
  LET n == IF v THEN s.minted + 1 ELSE 0
  IN IF s.mediaLocal = v THEN s
     ELSE IF s.listening
       THEN swapUrl([s EXCEPT !.mediaLocal = v, !.localMediaStream = v, !.localUrl = v,
                              !.minted = IF v THEN n ELSE @, !.streams.local = n],
                    "local", n)
       ELSE [s EXCEPT !.mediaLocal = v]

setMediaRemote(s, v) ==
  LET n == IF v THEN s.minted + 1 ELSE 0
      s1 == [s EXCEPT !.mediaRemote = v, !.minted = IF v THEN n ELSE @,
                      !.streams.remote = n]
  IN IF s.mediaRemote = v THEN s
     ELSE IF s.listening THEN swapUrl([s1 EXCEPT !.remoteUrl = v], "remote", n)
     ELSE s1

mediaEndKeeps(s) == s

\* media.end()
mediaEnd(s) ==
  setMediaRemote(setMediaLocal([s EXCEPT !.peer = FALSE, !.ended = TRUE], FALSE), FALSE)

detachSetsStatus(s) ==
  [s EXCEPT !.mercury = FALSE, !.listening = FALSE, !.status = "disconnected"]

\* this.stopListening(this.spark.mercury); this.off()
detach(s) == [s EXCEPT !.mercury = FALSE, !.listening = FALSE]

onDisconnectedKeepsUrls(s) == detach(s)

\* the `disconnected` listener of initialize
onDisconnected(s) ==
  [swapUrl(swapUrl(detach(s), "local", 0), "remote", 0)
     EXCEPT !.localUrl = FALSE, !.remoteUrl = FALSE]

emit(s, e) ==
  IF s.listening
    THEN [s EXCEPT !.emitted = Append(@, e), !.observed = @ \cup {e}]
    ELSE s

\* ------------------------------------------------------ reject, hangup
reject(x) ==
  IF x.s.rejectFlight THEN x
  ELSE IF direction(x.s.locus) = "out" THEN x
  ELSE Issue([x EXCEPT !.s.rejectFlight = TRUE],
             Msg("srv", x.s.id, "decline", "reject", x.s.locus, TRUE, NoCorr))

\* _hangup, under @oneFlight
hangupInternal(x) ==
  IF x.s.hangupFlight THEN x
  ELSE Issue([x EXCEPT !.s.locusLeaveInFlight = TRUE, !.s.hangupFlight = TRUE],
             Msg("srv", x.s.id, "leave", "hangup", x.s.locus, TRUE, NoCorr))

hangupRouteNoReject(s) ==
  IF s.locus = NoLocus
    THEN IF s.locusJoinInFlight THEN "wait" ELSE "direct"
  ELSE "leave"

\* which way hangup() goes
hangupRoute(s) ==
  IF direction(s.locus) = "in" /\ ~joinedOnThisDevice(s.locus) THEN "reject"
  ELSE IF s.locus = NoLocus
    THEN IF s.locusJoinInFlight THEN "wait" ELSE "direct"
  ELSE "leave"

hangup(x) ==
  IF hangupRoute(x.s) = "reject" THEN reject(x)
  ELSE Then([x EXCEPT !.s = mediaEnd(x.s)], LAMBDA ended :
         CASE hangupRoute(x.s) = "wait" -> [ended EXCEPT !.s.waitLocus = TRUE]
           [] hangupRoute(x.s) = "direct" -> [ended EXCEPT !.s = detach(ended.s)]
           [] OTHER -> hangupInternal(ended))


\* ------------------------------------------------- session reconciliation
\* spark.locus.compare: the verdicts the comparator may give. A snapshot that
\* is not newer is ignored, the next one is used, and one further ahead is
\* used or, when the comparator cannot bridge the gap, fetched afresh.
compare(current, incoming) ==
  IF incoming.seq > current.seq + 1 THEN {"USE_INCOMING", "FETCH"}
  ELSE IF incoming.seq > current.seq THEN {"USE_INCOMING"}
  ELSE {"IGNORE"}

\* the `change:isActive` handler of initialize
onChangeIsActive(x, previous) ==
  IF x.s.listening /\ isActive(previous) # isActive(x.s.locus)
       /\ ~isActive(x.s.locus) /\ joinedOnThisDevice(x.s.locus)
    THEN hangup(x) ELSE x

\* the `change:activeParticipantsCount` handler of initialize
onChangeActiveParticipantsCount(x, previous) ==
  IF x.s.listening
       /\ activeParticipantsCount(previous) # activeParticipantsCount(x.s.locus)
       /\ joinedOnThisDevice(x.s.locus) /\ activeParticipantsCount(x.s.locus) = 1
       /\ previous # NoLocus /\ activeParticipantsCount(previous) > 1
    THEN hangup(x) ELSE x

\* the `change:status` handler of initialize: the lifecycle event, and with
\* `disconnected` its listener
onChangeStatus(x, old) ==
  IF x.s.status = old \/ ~x.s.listening \/ x.s.status \notin {"ringing", "connected", "disconnected"}
    THEN x
  ELSE IF x.s.status = "disconnected"
    THEN [x EXCEPT !.s = onDisconnected(emit(x.s, "disconnected"))]
  ELSE [x EXCEPT !.s = emit(x.s, x.s.status)]

\* hangup() waiting on `change:locus`
onWaitedLocus(x) ==
  IF x.s.waitLocus /\ x.s.listening
    THEN hangup([x EXCEPT !.s.waitLocus = FALSE]) ELSE x

\* this.locus was replaced: the derived properties are recomputed and the
\* change handlers run, in the order the properties are declared
onLocusChange(x, previous) ==
  Then([x EXCEPT !.s.status = Status(x.s.locus)], LAMBDA x0 :
  Then(onChangeIsActive(x0, previous), LAMBDA x1 :
  Then(onChangeActiveParticipantsCount(x1, previous), LAMBDA x2 :
  Then(onChangeStatus(x2, x.s.status), LAMBDA x3 : onWaitedLocus(x3)))))

assignLocus(x, incoming) ==
  IF incoming = x.s.locus THEN x
  ELSE onLocusChange([x EXCEPT !.s.locus = incoming,
                               !.s.late = @ \/ x.s.status = "disconnected"],
                     x.s.locus)

setLocusAdoptsStale(x, incoming, verdict, chain) ==
  IF x.s.locus = NoLocus
    THEN [x |-> assignLocus(x, incoming), done |-> TRUE]
  ELSE IF verdict = "USE_INCOMING"
    THEN Then(assignLocus(x, incoming), LAMBDA x1 :
           [x |-> IF hasDevice(x1.s.locus)
                    THEN [x1 EXCEPT !.s.correlationId = x1.s.locus.corr]
                    ELSE x1,
            done |-> TRUE])
  ELSE IF verdict = "FETCH"
    THEN [x |-> Issue(x,
                      Msg("srv", x.s.id, "get", chain, x.s.locus, TRUE, NoCorr)),
          done |-> FALSE]
  ELSE [x |-> assignLocus(x, incoming), done |-> TRUE]

setLocusGivesUp(x, incoming, verdict, chain) ==
  IF x.s.locus = NoLocus
    THEN [x |-> assignLocus(x, incoming), done |-> TRUE]
  ELSE IF verdict = "USE_INCOMING"
    THEN Then(assignLocus(x, incoming), LAMBDA x1 :
           [x |-> IF hasDevice(x1.s.locus)
                    THEN [x1 EXCEPT !.s.correlationId = x1.s.locus.corr]
                    ELSE x1,
            done |-> TRUE])
  ELSE IF verdict = "FETCH" /\ x.s.refetches = 0
    THEN [x |-> Issue(x,
                      Msg("srv", x.s.id, "get", chain, x.s.locus, TRUE, NoCorr)),
          done |-> FALSE]
  ELSE [x |-> x, done |-> TRUE]

setLocusKeepsCorrelation(x, incoming, verdict, chain) ==
  IF x.s.locus = NoLocus
    THEN [x |-> assignLocus(x, incoming), done |-> TRUE]
  ELSE IF verdict = "USE_INCOMING"
    THEN [x |-> assignLocus(x, incoming), done |-> TRUE]
  ELSE IF verdict = "FETCH"
    THEN [x |-> Issue(x,
                      Msg("srv", x.s.id, "get", chain, x.s.locus, TRUE, NoCorr)),
          done |-> FALSE]
  ELSE [x |-> x, done |-> TRUE]

setLocusComparesFirst(x, incoming, verdict, chain) ==
  IF verdict = "USE_INCOMING"
    THEN Then(assignLocus(x, incoming), LAMBDA x1 :
           [x |-> IF hasDevice(x1.s.locus)
                    THEN [x1 EXCEPT !.s.correlationId = x1.s.locus.corr]
                    ELSE x1,
            done |-> TRUE])
  ELSE IF verdict = "FETCH"
    THEN [x |-> Issue(x,
                      Msg("srv", x.s.id, "get", chain, x.s.locus, TRUE, NoCorr)),
          done |-> FALSE]
  ELSE [x |-> x, done |-> TRUE]

setLocusRenotifies(x, incoming, verdict, chain) ==
  IF x.s.locus = NoLocus
    THEN [x |-> assignLocus(x, incoming), done |-> TRUE]
  ELSE IF verdict = "USE_INCOMING"
    THEN Then(assignLocus(x, incoming), LAMBDA x1 :
           [x |-> IF hasDevice(x1.s.locus)
                    THEN [x1 EXCEPT !.s.correlationId = x1.s.locus.corr]
                    ELSE x1,
            done |-> TRUE])
  ELSE IF verdict = "FETCH"
    THEN [x |-> Issue(x,
                      Msg("srv", x.s.id, "get", chain, x.s.locus, TRUE, NoCorr)),
          done |-> FALSE]
  ELSE [x |-> [x EXCEPT !.s = emit(x.s, x.s.status)], done |-> TRUE]

\* _setLocus; `chain` is what awaits the promise it returns. The result says
\* in `done` whether that promise is resolved.
setLocus(x, incoming, verdict, chain) ==
  IF x.s.locus = NoLocus
    THEN [x |-> assignLocus(x, incoming), done |-> TRUE]
  ELSE IF verdict = "USE_INCOMING"
    THEN Then(assignLocus(x, incoming), LAMBDA x1 :
           [x |-> IF hasDevice(x1.s.locus)
                    THEN [x1 EXCEPT !.s.correlationId = x1.s.locus.corr]
                    ELSE x1,
            done |-> TRUE])
  ELSE IF verdict = "FETCH"
    THEN [x |-> Issue(x,
                      Msg("srv", x.s.id, "get", chain, x.s.locus, TRUE, NoCorr)),
          done |-> FALSE]
  ELSE [x |-> x, done |-> TRUE]


\* ------------------------------------------------------------ join, dial
\* The constraints of a join are the default ones (audio, and video that
\* faces phone.defaultFacingMode), audio only ("audio"), or audio and
\* video: true ("plain").
Constraints == {"default", "audio", "plain"}

defaultFacingMode == "user"

\* _join up to media.createOffer(): the target carries no correlationId, so a
\* new one is made (uuid.v4(), here the ordinal of the join on this Call)
joinWith(x, chain, kind) ==
  LET k == x.s.joins + 1
      mode == IF kind = "default" THEN defaultFacingMode ELSE "none"
  IN Issue([x EXCEPT !.s.joins = k, !.s.correlationId = [by |-> x.s.id, k |-> k],
                     !.s.ended = FALSE, !.s.audio = TRUE, !.s.video = kind # "audio",
                     !.s.offerToReceive = [audio |-> TRUE, video |-> kind # "audio"],
                     !.s.constraintMode = mode,
                     !.s.facingMode = IF mode \in {"user", "environment"} THEN mode ELSE @],
           Msg("cli", x.s.id, "offer", chain, NoLocus, TRUE, NoCorr))

join(x, chain) == joinWith(x, chain, "default")

\* media.createOffer() resolved: the offer goes to spark.locus[locusMethodName]
onOffer(x, chain) ==
  LET s1 == setMediaLocal([x.s EXCEPT !.peer = TRUE, !.sendingAudio = x.s.audio,
                                      !.sendingVideo = x.s.video,
                                      !.receiving = x.s.offerToReceive], TRUE)
  IN Issue([x EXCEPT !.s = s1],
           Msg("srv", x.s.id, IF chain = "dial" THEN "create" ELSE "join", chain,
               NoLocus, TRUE, s1.correlationId))

answerAlways(x) == join(x, "answer")

answer(x) ==
  IF x.s.locus = NoLocus \/ direction(x.s.locus) = "out" THEN x
  ELSE IF joinedOnThisDevice(x.s.locus) /\ x.s.peer THEN x
  ELSE join(x, "answer")

\* a rejected chain: dial's .catch triggers `error`, the others reject their result
settle(s, via, outcome) ==
  [s EXCEPT !.hangupLog =
     {IF e.via = via /\ e.out = "pending" THEN [e EXCEPT !.out = outcome] ELSE e : e \in @}]

\* ------------------------------------------------------- sending media
Intent(s, key) == IF key = "audio" THEN s.audio ELSE s.video

Sending(s, key) == IF key = "audio" THEN s.sendingAudio ELSE s.sendingVideo

NoAt == [sendingAudio |-> FALSE, sendingVideo |-> FALSE, audio |-> "none", video |-> "none"]

Unsettled(s) == \E i \in DOMAIN s.changes : s.changes[i].st \in {"waiting", "updating"}

\* _changeSendingMedia: the once-listener is registered and media.set(key, value)
\* asks the adapter for the change
changeSendingMedia(x, key, value) ==
  [x EXCEPT !.s.changes =
              Append(@, [key |-> key, value |-> value,
                         was |-> [audio |-> x.s.sendingAudio, video |-> x.s.sendingVideo],
                         overlap |-> Unsettled(x.s), st |-> "waiting", at |-> NoAt]),
            !.s.audio = IF key = "audio" THEN value ELSE @,
            !.s.video = IF key = "video" THEN value ELSE @]

\* audioMuted: !this.sendingAudio, videoMuted: !this.sendingVideo
muteFlags(s) == [audio |-> ~s.sendingAudio, video |-> ~s.sendingVideo]

updateMedia(x, flags) ==
  Issue([x EXCEPT !.s.updateFlight = TRUE, !.s.pushed = Append(@, flags)],
        [Msg("srv", x.s.id, "update", "update", x.s.locus, TRUE, NoCorr)
           EXCEPT !.flags = flags])

updateSendingMediaAlways(x) == updateMedia(x, muteFlags(x.s))

updateSendingMediaUnnegated(x) ==
  IF x.s.updateFlight THEN x
  ELSE updateMedia(x, [audio |-> x.s.sendingAudio, video |-> x.s.sendingVideo])

\* _updateSendingMedia, under @oneFlight
updateSendingMedia(x) ==
  IF x.s.updateFlight THEN x ELSE updateMedia(x, muteFlags(x.s))

\* change:sendingAudio / change:sendingVideo: the adapter's flag has changed
\* and the once-listeners of _changeSendingMedia that wait for it run
onChangeSending(x, key) ==
  LET x1 == [x EXCEPT !.s.sendingAudio = IF key = "audio" THEN x.s.audio ELSE @,
                      !.s.sendingVideo = IF key = "video" THEN x.s.video ELSE @]
      heard(ch) == ch.key = key /\ ch.st = "waiting"
  IN IF ~x.s.listening \/ ~\E i \in DOMAIN x.s.changes : heard(x.s.changes[i])
       THEN x1
       ELSE updateSendingMedia(
              [x1 EXCEPT !.s.changes =
                 [i \in DOMAIN @ |-> IF heard(@[i]) THEN [@[i] EXCEPT !.st = "updating"]
                                     ELSE @[i]]])

\* updateMedia answered: .then(() => this.spark.locus.get(this.locus))
onUpdated(x) == Issue(x, Msg("srv", x.s.id, "get", "update", x.s.locus, TRUE, NoCorr))

\* the promise of _updateSendingMedia settles, and with it the result of
\* every invocation that awaits it
settleChanges(s, st) ==
  [s EXCEPT !.updateFlight = FALSE,
            !.changes =
              [i \in DOMAIN @ |->
                 IF @[i].st = "updating"
                   THEN [@[i] EXCEPT !.st = st,
                                     !.at = [sendingAudio |-> s.sendingAudio,
                                             sendingVideo |-> s.sendingVideo,
                                             audio |-> s.locus.audio,
                                             video |-> s.locus.video]]
                   ELSE @[i]]]

\* ----------------------------------------------------- receiving media
changeReceivingMediaUpdates(x, key, value) ==
  updateSendingMedia(
    [x EXCEPT !.s.receives = Append(@, [key |-> key, value |-> value, st |-> "waiting"]),
              !.s.offerToReceive[key] = value])

\* _changeReceivingMedia: the once-listener is registered and
\* media.set(key, value) asks the adapter for the change
changeReceivingMedia(x, key, value) ==
  [x EXCEPT !.s.receives = Append(@, [key |-> key, value |-> value, st |-> "waiting"]),
            !.s.offerToReceive[key] = value]

\* change:receivingAudio / change:receivingVideo: the once-listeners of
\* _changeReceivingMedia that wait for it resolve their results
onChangeReceiving(x, key) ==
  LET x1 == [x EXCEPT !.s.receiving[key] = x.s.offerToReceive[key]]
  IN IF ~x.s.listening THEN x1
     ELSE [x1 EXCEPT !.s.receives =
             [i \in DOMAIN @ |-> IF @[i].key = key THEN [@[i] EXCEPT !.st = "resolved"]
                                 ELSE @[i]]]

\* -------------------------------------------------------- facing mode
opposite(mode) == IF mode = "user" THEN "environment" ELSE "user"

toggleFacingModeUnchecked(x) ==
  IF x.s.video /\ x.s.facingMode \notin {"user", "environment"}
    THEN [x EXCEPT !.s.thrown = "facing-mode"]
  ELSE Issue([x EXCEPT !.s.flips = @ + 1],
             Msg("cli", x.s.id, "stream", opposite(x.s.facingMode), NoLocus, TRUE, NoCorr))

\* toggleFacingMode up to phone.createLocalMediaStream(constraints); the
\* message carries constraints.video.facingMode.exact
toggleFacingMode(x) ==
  IF ~x.s.video THEN [x EXCEPT !.s.thrown = "audio-only"]
  ELSE IF x.s.facingMode \notin {"user", "environment"}
    THEN [x EXCEPT !.s.thrown = "facing-mode"]
  ELSE Issue([x EXCEPT !.s.flips = @ + 1],
             Msg("cli", x.s.id, "stream", opposite(x.s.facingMode), NoLocus, TRUE, NoCorr))

\* this.localMediaStream = stream with a new stream: the change:localMediaStream
\* listener hands it to the adapter and re-reads the facing mode of the video
\* constraint, and the change:media.localMediaStream listener swaps the URL
setLocalMediaStream(s) ==
  LET n == s.minted + 1
      s1 == [s EXCEPT !.minted = n, !.streams.local = n, !.localMediaStream = TRUE]
  IN IF ~s.listening THEN s1
     ELSE swapUrl([s1 EXCEPT !.mediaLocal = TRUE, !.localUrl = TRUE,
                             !.facingMode =
                               IF @ # "none" /\ s.constraintMode \in {"user", "environment"}
                                 THEN s.constraintMode ELSE @],
                  "local", n)

\* createLocalMediaStream resolved with the stream asked for facing `mode`
onStream(x, mode) ==
  [x EXCEPT !.s = setLocalMediaStream([x.s EXCEPT !.awaiting = Append(@, mode)])]

\* the adapter's `answeraccepted`: the toggles that wait record their mode,
\* in the order they were made
onAnswerAccepted(x) ==
  [x EXCEPT !.s.facingMode = x.s.awaiting[Len(x.s.awaiting)], !.s.awaiting = <<>>]

failedSilent(x, chain) == x

failed(x, chain) ==
  CASE chain = "dial" -> [x EXCEPT !.s = emit([x.s EXCEPT !.errors = @ + 1], "error")]
    [] chain = "hangup" -> [x EXCEPT !.s = settle([x.s EXCEPT !.hangupFlight = FALSE], "leave", "fail")]
    [] chain = "reject" -> [x EXCEPT !.s = settle([x.s EXCEPT !.rejectFlight = FALSE], "decline", "fail")]
    [] chain = "update" -> [x EXCEPT !.s = settleChanges(x.s, "rejected")]
    [] OTHER -> x

\* what follows _setLocus in each chain, once its promise is resolved
resolved(x, chain) ==
  CASE chain \in {"dial", "answer"} ->
         LET x1 == [x EXCEPT !.s.locusJoinInFlight = FALSE,
                             !.s.fedEnded = @ \/ (x.s.ended /\ hasMediaConnection(x.s.locus))]
         IN IF hasMediaConnection(x1.s.locus) /\ x1.s.peer
              THEN [x1 EXCEPT !.s = setMediaRemote(x1.s, TRUE)]
              ELSE failed(x1, chain)
    [] chain = "hangup" ->
         [x EXCEPT !.s = settle(detach([x.s EXCEPT !.locusLeaveInFlight = FALSE,
                                                   !.hangupFlight = FALSE]), "leave", "ok")]
    [] chain = "reject" ->
         [x EXCEPT !.s = settle(detach([x.s EXCEPT !.rejectFlight = FALSE]), "decline", "ok")]
    [] chain = "update" -> [x EXCEPT !.s = settleChanges(x.s, "resolved")]
    [] OTHER -> x

\* the .then of a round trip of `chain` that answered with `incoming`
onResponse(x, chain, incoming, verdict) ==
  IF chain \in {"dial", "answer"}
    THEN Then(setLocus(x, incoming, verdict, "none"), LAMBDA r : resolved(r.x, chain))
    ELSE Then(setLocus(x, incoming, verdict, chain), LAMBDA r :
           IF r.done THEN resolved(r.x, chain) ELSE r.x)

onLocusEventMismatch(x, incoming, verdict) == x

onLocusEventAnySession(x, incoming, verdict) ==
  IF x.s.locus # NoLocus
       \/ (x.s.correlationId # NoCorr /\ hasDevice(incoming)
             /\ x.s.correlationId = incoming.corr)
    THEN setLocus(x, incoming, verdict, "none").x
    ELSE x

\* _onLocusEvent; reading the correlationId of a device record that the
\* event does not have throws
onLocusEvent(x, incoming, verdict) ==
  IF x.s.locus # NoLocus /\ incoming.url = x.s.locus.url
    THEN setLocus(x, incoming, verdict, "none").x
  ELSE IF x.s.correlationId = NoCorr THEN x
  ELSE IF ~hasDevice(incoming) THEN [x EXCEPT !.s.thrown = "device"]
  ELSE IF x.s.correlationId = incoming.corr
    THEN setLocus(x, incoming, verdict, "none").x
  ELSE x

\* -------------------------------------------------- the session service
\* the status string of a medium, from whether it is sent and received
boolToStatus(sending, receiving) ==
  IF sending /\ receiving THEN "sendrecv"
  ELSE IF sending /\ ~receiving THEN "sendonly"
  ELSE IF ~sending /\ receiving THEN "recvonly"
  ELSE "inactive"

View(sv, c) ==
  [url |-> "session", seq |-> sv.seq, self |-> sv.st[c], remote |-> sv.st[Other(c)],
   dev |-> sv.st[c] = "JOINED",
   active |-> \E d \in Calls : sv.st[d] = "JOINED",
   creator |-> c = "a", corr |-> sv.corr[c],
   audio |-> boolToStatus(~sv.muted[c].audio, sv.recv[c].audio),
   video |-> boolToStatus(~sv.muted[c].video, sv.recv[c].video)]

applies(sv, m) ==
  CASE m.op = "create" -> ~sv.exists /\ m.call = "a"
    [] m.op = "join" -> sv.exists /\ sv.st[m.call] \in {"IDLE", "NOTIFIED"}
    [] m.op = "alert" -> sv.exists /\ sv.st[m.call] = "IDLE"
    [] m.op = "leave" -> sv.exists /\ sv.st[m.call] = "JOINED"
    [] m.op = "decline" -> sv.exists /\ sv.st[m.call] \in {"IDLE", "NOTIFIED"}
    [] m.op = "update" -> sv.exists /\ sv.st[m.call] = "JOINED"
    [] OTHER -> FALSE

\* a request the session cannot take in its present state is answered with an
\* error; `get` always answers
refused(sv, m) == m.op # "get" /\ ~applies(sv, m)

serve(sv, m) ==
  LET c == m.call
      to == CASE m.op = "create" -> "JOINED"
              [] m.op = "join" -> "JOINED"
              [] m.op = "alert" -> "NOTIFIED"
              [] m.op = "leave" -> "LEFT"
              [] OTHER -> "DECLINED"
  IN IF ~applies(sv, m) THEN sv
     ELSE IF m.op = "update"
       THEN IF m.chain = "renegotiate"
              THEN [sv EXCEPT !.seq = @ + 1, !.recv[c] = m.flags]
              ELSE [sv EXCEPT !.seq = @ + 1, !.muted[c] = m.flags]
     ELSE [sv EXCEPT !.exists = TRUE, !.seq = @ + 1, !.st[c] = to,
                     !.corr[c] = IF m.op \in {"create", "join"} THEN m.corr ELSE @]

InitSrv ==
  [exists |-> FALSE, seq |-> 0, st |-> [c \in Calls |-> "IDLE"],
   corr |-> [c \in Calls |-> NoCorr],
   muted |-> [c \in Calls |-> NoFlags],
   recv |-> [c \in Calls |-> [audio |-> TRUE, video |-> TRUE]]]


\* ---------------------------------------------------------- renegotiation
\* @retry gives up once this many attempts of _fetchExpectedLocus have thrown
MaxErrors == 3

Step(s, name) == [s EXCEPT !.trail = Append(@, name)]

\* the status strings _fetchExpectedLocus expects of the polled snapshot
expectedStatus(s) ==
  [audio |-> boolToStatus(s.audio, s.offerToReceive.audio),
   video |-> boolToStatus(s.video, s.offerToReceive.video)]

renegotiationFailedSilent(x) ==
  [x EXCEPT !.s = [Step(x.s, "error") EXCEPT !.stage = "failed"]]

\* .catch((reason) => this.emit('error', reason))
renegotiationFailed(x) ==
  [x EXCEPT !.s = emit([Step(x.s, "error") EXCEPT !.stage = "failed", !.errors = @ + 1],
                       "error")]

\* the debounced handler of `negotiationneeded`: media.createOffer()
onNegotiationNeeded(x) ==
  Issue([x EXCEPT !.s = [Step([x.s EXCEPT !.trail = <<>>], "createOffer")
                           EXCEPT !.stage = "offering", !.renegs = @ + 1,
                                  !.pollErrors = 0]],
        Msg("cli", x.s.id, "reoffer", "renegotiate", NoLocus, TRUE, NoCorr))

\* createOffer() settled: locus.updateMedia(this.locus, {sdp: offer, mediaId}),
\* which throws when there is no session to take the url of
onReoffer(x, made) ==
  IF ~made \/ x.s.locus = NoLocus THEN renegotiationFailed(x)
  ELSE Issue([x EXCEPT !.s = [Step(x.s, "updateMedia") EXCEPT !.stage = "updating"]],
             [Msg("srv", x.s.id, "update", "renegotiate", x.s.locus, TRUE, NoCorr)
                EXCEPT !.flags = x.s.offerToReceive])

\* one attempt of _fetchExpectedLocus: locus.get(this.locus)
fetchExpectedLocus(x) ==
  Issue([x EXCEPT !.s = [Step(x.s, "get") EXCEPT !.stage = "polling"]],
        Msg("srv", x.s.id, "get", "renegotiate", x.s.locus, TRUE, NoCorr))

\* an attempt threw: @retry makes another one unless MaxErrors have thrown
pollAgain(x) ==
  IF x.s.pollErrors + 1 < MaxErrors
    THEN fetchExpectedLocus([x EXCEPT !.s.pollErrors = @ + 1])
    ELSE renegotiationFailed([x EXCEPT !.s.pollErrors = @ + 1])

\* the snapshot _fetchExpectedLocus resolved with: _setLocus(locus), whose
\* promise nothing awaits, then media.acceptAnswer() of the remote description
\* of this.mediaConnection, which is there once the session has this device
onPolled(x, incoming, verdict) ==
  Then(setLocus([x EXCEPT !.s = Step(x.s, "setLocus")], incoming, verdict, "none"),
       LAMBDA r :
         IF ~hasMediaConnection(r.x.s.locus) THEN renegotiationFailed(r.x)
         ELSE Issue([r.x EXCEPT !.s = [Step(r.x.s, "acceptAnswer")
                                         EXCEPT !.stage = "accepting",
                                                !.fed = [polled |-> incoming.seq,
                                                         from |-> r.x.s.locus.seq]]],
                    Msg("cli", x.s.id, "accept", "renegotiate", NoLocus, TRUE, NoCorr)))

\* the response of locus.get() in _fetchExpectedLocus
onPollResponseAny(x, ok, incoming, verdict) ==
  IF ok THEN onPolled(x, incoming, verdict) ELSE pollAgain(x)

onPollResponse(x, ok, incoming, verdict) ==
  IF ok /\ incoming.audio = expectedStatus(x.s).audio
        /\ incoming.video = expectedStatus(x.s).video
    THEN onPolled(x, incoming, verdict)
    ELSE pollAgain(x)

\* the response of locus.updateMedia(): _fetchExpectedLocus()
onRenegotiationResponse(x, op, ok, incoming, verdict) ==
  IF op = "update"
    THEN IF ok THEN fetchExpectedLocus(x) ELSE renegotiationFailed(x)
    ELSE onPollResponse(x, ok, incoming, verdict)

\* media.acceptAnswer() settled
onAccept(x, ok) ==
  IF ok THEN [x EXCEPT !.s = [Step(x.s, "accepted") EXCEPT !.stage = "done"]]
  ELSE renegotiationFailed(x)


\* ---------------------------------------------------------------- actions
\* A request is served at the moment it is issued; its response and the events
\* the service pushes then travel to the Calls, in any order but for the events
\* of one device, which arrive in the order they were pushed. (Serving a request
\* later than it was issued gives no other run: nothing the issuing Call does in
\* between depends on the request being unserved.)
Begin(c) == Ctx([call[c] EXCEPT !.emitted = <<>>, !.last = "none", !.thrown = "none"])

\* events are pushed to the devices that listen: a Call's mercury listener, or
\* Phone on a device that has no Call yet
Pushed(sv, cs) ==
  {Msg("cli", d, "event", "none", View(sv, d), TRUE, NoCorr) :
     d \in {e \in Calls : ~cs[e].exists \/ cs[e].mercury}}

Answered(sv, m) == Msg("cli", m.call, m.op, m.chain, View(sv, m.call), TRUE, NoCorr)

Failure(m) == Msg("cli", m.call, m.op, m.chain, NoLocus, FALSE, NoCorr)

\* the handler that ran on Call c ends: x.s is the Call, x.out what it issued
\* (at most one request), `consumed` what it handled, u the budgets
Commit(c, x, consumed, u) ==
  \E y \in {x} :
    LET cs == [call EXCEPT ![c] = y.s]
        \* events the Call no longer hears, or will ignore as stale, are dropped
        kept == {m \in net \ consumed :
                   m.op = "event" /\ m.call = c =>
                     y.s.mercury /\ (y.s.locus # NoLocus => m.loc.seq > y.s.locus.seq)}
        reqs == {m \in y.out : m.dir = "srv"}
    IN /\ call' = cs
       /\ IF reqs = {}
            THEN net' = SendAll(kept, y.out) /\ srv' = srv /\ used' = u
            ELSE \E m \in reqs : \E sv \in {serve(srv, m)} :
                   \/ /\ ~refused(srv, m)
                      /\ srv' = sv /\ used' = u
                      /\ net' = SendAll(kept, (y.out \ reqs) \cup {Answered(sv, m)}
                                  \cup (IF sv.seq = srv.seq THEN {} ELSE Pushed(sv, cs)))
                   \/ /\ refused(srv, m) \/ u.fails < MaxFail
                      /\ srv' = srv
                      /\ used' = [u EXCEPT !.fails = IF refused(srv, m) THEN @ ELSE @ + 1]
                      /\ net' = SendAll(kept, (y.out \ reqs) \cup {Failure(m)})

\* the verdicts to choose from when `incoming` reaches _setLocus of Call c
Verdicts(c, incoming) ==
  IF call[c].locus = NoLocus THEN {"USE_INCOMING"}
  ELSE {v \in compare(call[c].locus, incoming) : v = "FETCH" => used.fetches < MaxFetch}

Fetched(c, v) ==
  [used EXCEPT !.fetches = IF v = "FETCH" /\ call[c].locus # NoLocus THEN @ + 1 ELSE @]

\* a consumer invocation: one that changes nothing leaves the state as it is
Invoke(c, x) ==
  /\ call[c].exists /\ used.ops < MaxOps
  /\ \E y \in {x} : y # Begin(c) /\ Commit(c, y, {}, [used EXCEPT !.ops = @ + 1])

\* Phone#dial makes the Call and invokes dial once, on a registered device:
\* register() is resolved and _join runs up to createOffer()
Dial(c) ==
  /\ c = "a" /\ call[c].exists /\ ~call[c].dialed
  /\ Commit(c, join([Begin(c) EXCEPT !.s.dialed = TRUE], "dial"), {}, used)

Answer(c) == Invoke(c, answer(Begin(c)))

Acknowledge(c) ==
  LET x == Begin(c)
  IN Invoke(c, IF x.s.locus = NoLocus THEN x
               ELSE Issue(x, Msg("srv", c, "alert", "ack", x.s.locus, TRUE, NoCorr)))

Hangup(c) ==
  LET x == Begin(c)
      r == hangupRoute(x.s)
      entry == [during |-> x.s.hangupFlight,
                via |-> IF r = "reject" THEN "decline" ELSE r,
                out |-> IF r = "direct" THEN "ok" ELSE "pending"]
      x1 == hangup(x)
  IN Invoke(c, [x1 EXCEPT !.s.hangupLog = @ \cup {entry}])

Reject(c) == Invoke(c, reject(Begin(c)))

\* createOffer() resolves
Offer(m) ==
  /\ m \in net /\ m.op = "offer"
  /\ Commit(m.call, onOffer(Begin(m.call), m.chain), {m}, used)

\* the reconciliation of a fetched snapshot that fetches again is counted
noteRefetch(x, m) ==
  IF m.op = "get" /\ \E o \in x.out : o.op = "get"
    THEN [x EXCEPT !.s.refetches = @ + 1] ELSE x

\* the response of a round trip reaches the Call
Response(m) ==
  /\ m \in net /\ m.op \notin {"offer", "event", "stream"}
  /\ m.chain # "renegotiate"
  /\ IF m.ok /\ m.op = "update"
       THEN Commit(m.call, onUpdated(Begin(m.call)), {m}, used)
     ELSE IF m.ok
       THEN \E v \in Verdicts(m.call, m.loc) :
              Commit(m.call, noteRefetch(onResponse(Begin(m.call), m.chain, m.loc, v), m),
                     {m}, Fetched(m.call, v))
       ELSE Commit(m.call, failed(Begin(m.call), m.chain), {m}, used)

\* a pushed event reaches the device: the Call's mercury listener, or Phone,
\* which makes the inbound Call from the notification of an incoming call
Event(m) ==
  /\ m \in net /\ m.op = "event"
  /\ \A o \in net : o.op = "event" /\ o.call = m.call => o.loc.seq >= m.loc.seq
  /\ LET c == m.call
     IN IF ~call[c].exists
          THEN /\ call' = [call EXCEPT ![c] =
                             IF m.loc.remote = "JOINED" /\ m.loc.self = "IDLE"
                               THEN NewCall(c, m.loc, TRUE) ELSE @]
               /\ net' = net \ {m}
               /\ UNCHANGED <<srv, used>>
          ELSE \E v \in Verdicts(c, m.loc) :
                 Commit(c, onLocusEvent(Begin(c), m.loc, v), {m}, Fetched(c, v))

Init ==
  /\ call = [c \in Calls |-> NewCall(c, NoLocus, c = "a")]
  /\ net = {}
  /\ srv = InitSrv
  /\ used = [ops |-> 0, fails |-> 0, fetches |-> 0]

Next ==
  \/ \E c \in Calls : Dial(c)
  \/ \E c \in Calls : Answer(c)
  \/ \E c \in Calls : Acknowledge(c)
  \/ \E c \in Calls : Hangup(c)
  \/ \E c \in Calls : Reject(c)
  \/ \E m \in net : Offer(m)
  \/ \E m \in net : Response(m)
  \/ \E m \in net : Event(m)

Spec == Init /\ [][Next]_vars


\* ------------------------------------------ the status getter on its own
\* every snapshot a session can present to the getter: any pair of participant
\* states, either participant missing, the device joined or not (a device
\* record exists only under a self participant)
Snapshots ==
  {l \in [url : {"session"}, seq : 1..MaxSeq, self : PStates \cup {"none"},
          remote : PStates \cup {"none"}, dev : BOOLEAN, active : BOOLEAN,
          creator : BOOLEAN, corr : {NoCorr},
          audio : {"sendrecv"}, video : {"sendrecv"}] :
     l.dev => l.self # "none"}

\* the getter runs on the snapshot that replaces the locus of Call "a"
Derive(l) ==
  /\ l.seq > call["a"].locus.seq
  /\ call' = [call EXCEPT !["a"].locus = l, !["a"].status = Status(l)]
  /\ UNCHANGED <<net, srv, used>>

InitStatus ==
  /\ call = [c \in Calls |-> NewCall(c, NoLocus, c = "a")]
  /\ net = {}
  /\ srv = InitSrv
  /\ used = [ops |-> 0, fails |-> 0, fetches |-> 0]

NextStatus == \E l \in Snapshots : Derive(l)

SpecStatus == InitStatus /\ [][NextStatus]_vars


\* ------------------------------------------------ the two-party scenarios
\* One caller and one callee on a service that fails no request. The caller
\* dials; the callee, once Phone has made its Call, may acknowledge, and then
\* answers or rejects; the caller hangs up after both Calls were connected.
Fresh(c) == call[c].exists /\ call[c].joins = 0 /\ ~call[c].rejectFlight
              /\ srv.st[c] \in {"IDLE", "NOTIFIED"}

ScAcknowledge == Fresh("b") /\ srv.st["b"] = "IDLE" /\ Acknowledge("b")

ScAnswer == Fresh("b") /\ Answer("b")

ScReject == Fresh("b") /\ Reject("b")

ScHangup ==
  /\ \A c \in Calls : "connected" \in call[c].observed
  /\ call["a"].hangupLog = {}
  /\ Hangup("a")

Deliver ==
  \/ \E m \in net : Offer(m)
  \/ \E m \in net : Response(m)
  \/ \E m \in net : Event(m)

InitScenario ==
  /\ call = [c \in Calls |-> NewCall(c, NoLocus, c = "a")]
  /\ net = {}
  /\ srv = InitSrv
  /\ used = [ops |-> 0, fails |-> MaxFail, fetches |-> 0]

NextScenario ==
  \/ Dial("a")
  \/ ScAcknowledge
  \/ ScAnswer
  \/ ScReject
  \/ ScHangup
  \/ Deliver

\* The event loop runs every continuation that is ready, and the transport
\* delivers every response and every pushed event: a message in flight is
\* handled eventually. What the consumers do is left to them.
SpecScenario == InitScenario /\ [][NextScenario]_vars /\ WF_vars(Deliver)


\* ------------------------------------- invocations that may do nothing
\* answer, reject and decline invoked in any state of a Call; an invocation
\* is a step whether or not it does anything, and one that does takes from
\* the budget of invocations.
Try(c, op, x) ==
  /\ call[c].exists
  /\ \E y \in {x} :
       IF y = Begin(c)
         THEN Commit(c, [y EXCEPT !.s.last = op], {}, used)
         ELSE /\ used.ops < MaxOps
              /\ Commit(c, [y EXCEPT !.s.last = op], {}, [used EXCEPT !.ops = @ + 1])

TryAnswer(c) == Try(c, "answer", answer(Begin(c)))

TryReject(c) == Try(c, "reject", reject(Begin(c)))

\* decline() is reject()
TryDecline(c) == Try(c, "decline", reject(Begin(c)))

\* spark.phone.register() is rejected: dial's catch runs and _join never does
DialFails(c) ==
  /\ c = "a" /\ call[c].exists /\ ~call[c].dialed /\ used.fails < MaxFail
  /\ Commit(c, failed([Begin(c) EXCEPT !.s.dialed = TRUE], "dial"), {},
            [used EXCEPT !.fails = @ + 1])

\* media.createOffer() is rejected: the chain ends without a request
OfferFails(m) ==
  /\ m \in net /\ m.op = "offer" /\ used.fails < MaxFail
  /\ Commit(m.call, failed(Begin(m.call), m.chain), {m}, [used EXCEPT !.fails = @ + 1])

InitInvoke ==
  /\ call = [c \in Calls |-> NewCall(c, NoLocus, c = "a")]
  /\ net = {}
  /\ srv = InitSrv
  /\ used = [ops |-> 0, fails |-> 0, fetches |-> 0]

NextInvoke ==
  \/ Dial("a")
  \/ DialFails("a")
  \/ \E m \in net : OfferFails(m)
  \/ \E c \in Calls : TryAnswer(c)
  \/ \E c \in Calls : TryReject(c)
  \/ \E c \in Calls : TryDecline(c)
  \/ Deliver

SpecInvoke == InitInvoke /\ [][NextInvoke]_vars


\* ------------------------------------------------ sending media mid-call
\* The two-party call of the scenarios, on a service that may fail a round
\* trip; on the caller's connected Call the consumer starts, stops or toggles
\* sending audio or video (a toggle is the invocation whose value is the
\* negation of the flag it reads), and the adapter reports each change it
\* makes.
ChangeSending(c, key, value) ==
  /\ call[c].exists /\ call[c].status = "connected" /\ call[c].listening
  /\ Len(call[c].changes) < MaxToggles
  /\ Commit(c, changeSendingMedia(Begin(c), key, value), {}, used)

Notify(c, key) ==
  /\ call[c].exists /\ call[c].peer
  /\ Sending(call[c], key) # Intent(call[c], key)
  /\ Commit(c, onChangeSending(Begin(c), key), {}, used)

InitMedia ==
  /\ call = [c \in Calls |-> NewCall(c, NoLocus, c = "a")]
  /\ net = {}
  /\ srv = InitSrv
  /\ used = [ops |-> 0, fails |-> 0, fetches |-> 0]

NextMedia ==
  \/ Dial("a")
  \/ ScAnswer
  \/ Deliver
  \/ \E key \in {"audio", "video"}, value \in BOOLEAN : ChangeSending("a", key, value)
  \/ \E key \in {"audio", "video"} : Notify("a", key)

SpecMedia == InitMedia /\ [][NextMedia]_vars


\* ---------------------------------------------- receiving media mid-call
\* The same call; on the caller's connected Call the consumer starts, stops
\* or toggles receiving audio or video, and the adapter reports each change
\* it makes.
ChangeReceiving(c, key, value) ==
  /\ call[c].exists /\ call[c].status = "connected" /\ call[c].listening
  /\ Len(call[c].receives) < MaxToggles
  /\ Commit(c, changeReceivingMedia(Begin(c), key, value), {}, used)

NotifyReceiving(c, key) ==
  /\ call[c].exists /\ call[c].peer
  /\ call[c].receiving[key] # call[c].offerToReceive[key]
  /\ Commit(c, onChangeReceiving(Begin(c), key), {}, used)

InitReceive ==
  /\ call = [c \in Calls |-> NewCall(c, NoLocus, c = "a")]
  /\ net = {}
  /\ srv = InitSrv
  /\ used = [ops |-> 0, fails |-> 0, fetches |-> 0]

NextReceive ==
  \/ Dial("a")
  \/ ScAnswer
  \/ Deliver
  \/ \E key \in {"audio", "video"}, value \in BOOLEAN : ChangeReceiving("a", key, value)
  \/ \E key \in {"audio", "video"} : NotifyReceiving("a", key)

SpecReceive == InitReceive /\ [][NextReceive]_vars


\* ------------------------------------------------- facing mode mid-call
\* The same call, dialed with any of the constraints; the caller toggles the
\* facing mode of its camera and may hang up once. A stream asked of the
\* device is made or refused, and the adapter reports the renegotiation that
\* follows a change of stream.
DialWith(c, kind) ==
  /\ c = "a" /\ call[c].exists /\ ~call[c].dialed
  /\ Commit(c, joinWith([Begin(c) EXCEPT !.s.dialed = TRUE], "dial", kind), {}, used)

ToggleFacingMode(c) ==
  /\ call[c].flips < MaxToggles
  /\ Try(c, "toggleFacingMode", toggleFacingMode(Begin(c)))

StreamCreated(m) ==
  /\ m \in net /\ m.op = "stream"
  /\ \E made \in BOOLEAN :
       Commit(m.call, IF made THEN onStream(Begin(m.call), m.chain) ELSE Begin(m.call),
              {m}, used)

AnswerAccepted(c) ==
  /\ call[c].exists /\ call[c].peer /\ call[c].awaiting # <<>>
  /\ Commit(c, onAnswerAccepted(Begin(c)), {}, used)

HangupOnce(c) == call[c].hangupLog = {} /\ Hangup(c)

InitFacing ==
  /\ call = [c \in Calls |-> NewCall(c, NoLocus, c = "a")]
  /\ net = {}
  /\ srv = InitSrv
  /\ used = [ops |-> 0, fails |-> 0, fetches |-> 0]

NextFacing ==
  \/ \E kind \in Constraints : DialWith("a", kind)
  \/ ScAnswer
  \/ Deliver
  \/ ToggleFacingMode("a")
  \/ \E m \in net : StreamCreated(m)
  \/ AnswerAccepted("a")
  \/ HangupOnce("a")

SpecFacing == InitFacing /\ [][NextFacing]_vars


\* ------------------------------------------------ renegotiation mid-call
\* The same call; the consumer starts and stops receiving audio on the
\* caller's Call and the adapter asks for a renegotiation, one at a time. The
\* adapter makes or refuses the offer and accepts or refuses the answer.
NegotiationNeeded(c) ==
  /\ call[c].exists /\ call[c].peer
  /\ call[c].renegs < MaxReneg /\ call[c].stage \in {"idle", "done", "failed"}
  /\ Commit(c, onNegotiationNeeded(Begin(c)), {}, used)

Reoffered(m) ==
  /\ m \in net /\ m.op = "reoffer"
  /\ \E made \in BOOLEAN : Commit(m.call, onReoffer(Begin(m.call), made), {m}, used)

RenegotiationResponse(m) ==
  /\ m \in net /\ m.chain = "renegotiate" /\ m.op \in {"update", "get"}
  /\ \E v \in (IF m.ok /\ m.op = "get" THEN Verdicts(m.call, m.loc) ELSE {"IGNORE"}) :
       Commit(m.call, onRenegotiationResponse(Begin(m.call), m.op, m.ok, m.loc, v),
              {m}, IF m.ok /\ m.op = "get" THEN Fetched(m.call, v) ELSE used)

Accepted(m) ==
  /\ m \in net /\ m.op = "accept"
  /\ \E ok \in BOOLEAN : Commit(m.call, onAccept(Begin(m.call), ok), {m}, used)

InitRenegotiate ==
  /\ call = [c \in Calls |-> NewCall(c, NoLocus, c = "a")]
  /\ net = {}
  /\ srv = InitSrv
  /\ used = [ops |-> 0, fails |-> 0, fetches |-> 0]

NextRenegotiate ==
  \/ Dial("a")
  \/ ScAnswer
  \/ Deliver
  \/ \E value \in BOOLEAN : ChangeReceiving("a", "audio", value)
  \/ NotifyReceiving("a", "audio")
  \/ NegotiationNeeded("a")
  \/ \E m \in net : Reoffered(m)
  \/ \E m \in net : RenegotiationResponse(m)
  \/ \E m \in net : Accepted(m)

SpecRenegotiate == InitRenegotiate /\ [][NextRenegotiate]_vars



\* ------------------------------------------- events of another call
\* The two-party scenario on a service that may fail, while the user is in
\* another call as well: mercury hands the events of that call to every Call
\* of the device. Such an event has the other session's url; this device has
\* no record in it, or one with the correlationId of its join there.
OtherCorr == [by |-> "other", k |-> 1]

ForeignEvents ==
  {l \in [url : {"other"}, seq : 1..(MaxFetch + 1), self : {"IDLE", "JOINED"},
          remote : {"JOINED"}, dev : BOOLEAN, active : {TRUE},
          creator : {FALSE}, corr : {NoCorr, OtherCorr},
          audio : {"sendrecv"}, video : {"sendrecv"}] :
     /\ l.dev <=> l.self = "JOINED"
     /\ l.corr # NoCorr <=> l.dev}

ForeignEvent(c, l) ==
  /\ call[c].exists /\ call[c].mercury
  /\ \E v \in Verdicts(c, l) :
       Commit(c, onLocusEvent([Begin(c) EXCEPT !.s.last = "foreign"], l, v),
              {}, Fetched(c, v))

InitForeign ==
  /\ call = [c \in Calls |-> NewCall(c, NoLocus, c = "a")]
  /\ net = {}
  /\ srv = InitSrv
  /\ used = [ops |-> 0, fails |-> 0, fetches |-> 0]

NextForeign ==
  \/ Dial("a")
  \/ ScAcknowledge
  \/ ScAnswer
  \/ ScHangup
  \/ Deliver
  \/ \E c \in Calls, l \in ForeignEvents : ForeignEvent(c, l)

SpecForeign == InitForeign /\ [][NextForeign]_vars



\* ------------------------------------- sending and receiving, responding
\* The same call with both kinds of invocation on the caller's Call, on an
\* adapter that reports every change it makes and a service and transport
\* that answer every request: each of these steps is taken once it stays
\* possible.
NextToggle ==
  \/ NextMedia
  \/ \E key \in {"audio", "video"}, value \in BOOLEAN : ChangeReceiving("a", key, value)
  \/ \E key \in {"audio", "video"} : NotifyReceiving("a", key)

SpecToggle ==
  /\ InitMedia /\ [][NextToggle]_vars
  /\ WF_vars(Deliver)
  /\ \A key \in {"audio", "video"} :
       WF_vars(Notify("a", key)) /\ WF_vars(NotifyReceiving("a", key))



\* ----------------------------------------------------------------- claims
Lifecycle == {"ringing", "connected", "disconnected"}

LifecycleOf(events) == SelectSeq(events, LAMBDA e : e \in Lifecycle)

OutstandingJoins(c) == {m \in net : m.call = c /\ m.op \in {"create", "join"}}

OutstandingLeaves(c) == {m \in net : m.call = c /\ m.op = "leave"}

ConnectedRule(l) == l # NoLocus /\ l.dev /\ l.remote = "JOINED"

\* C1: whenever this device has joined the session and the remote participant
\* is joined, status is connected, whatever else the participant records say
\* and whatever the status was before.
C1_ConnectedFirst ==
  \A c \in Calls : ConnectedRule(call[c].locus) => call[c].status = "connected"

\* a snapshot of the connected rule whose local participant is LEFT
C1_Witness ==
  /\ ConnectedRule(call["a"].locus) /\ call["a"].locus.self = "LEFT"
  /\ call["a"].status = "connected"

\* the ordered rule for the snapshots that the connected rule does not cover
ReferenceRule(l) ==
  LET pair == l # NoLocus /\ l.self # "none" /\ l.remote # "none"
  IN IF pair /\ ("LEFT" \in {l.self, l.remote} \/ l.remote = "DECLINED")
       THEN "disconnected"
     ELSE IF pair /\ l.remote = "NOTIFIED" THEN "ringing"
     ELSE "initiated"

\* C2: outside the connected rule, status is disconnected when both
\* participants exist and one is LEFT or the remote one DECLINED, ringing when
\* both exist, neither is LEFT and the remote one is NOTIFIED, and initiated
\* otherwise.
C2_ReferenceRule ==
  \A c \in Calls :
    ~ConnectedRule(call[c].locus) => call[c].status = ReferenceRule(call[c].locus)

\* the remote participant declined and nobody left
C2_Witness ==
  /\ ~ConnectedRule(call["a"].locus)
  /\ call["a"].locus.remote = "DECLINED" /\ call["a"].locus.self = "JOINED"
  /\ call["a"].status = "disconnected"

C4_AdoptionEmits ==
  [][\A c \in Calls :
       call[c].exists /\ call'[c].locus # call[c].locus =>
         LifecycleOf(call'[c].emitted) =
           IF call'[c].status # call[c].status /\ call'[c].status \in Lifecycle
             THEN <<call'[c].status>> ELSE <<>>]_vars

TornDown(s) == ~s.listening /\ ~s.mercury /\ ~s.localUrl /\ ~s.remoteUrl

Released(c) == ~call[c].localUrl /\ ~call[c].remoteUrl

Observed(c, e) == e \in call[c].observed

\* C6: once the callee has answered the call dialed to it, both Calls
\* eventually observe connected; once the caller has then hung up, both Calls
\* eventually have observed disconnected and released both stream URLs.
C6_DialAnswerHangup ==
  /\ (call["b"].joins > 0) ~> (\A c \in Calls : Observed(c, "connected"))
  /\ (call["a"].hangupLog # {})
       ~> (\A c \in Calls : Observed(c, "disconnected") /\ Released(c))

\* the caller's hangup has settled and both Calls are disconnected
C6_Witness ==
  /\ \E e \in call["a"].hangupLog : e.via = "leave" /\ e.out = "ok"
  /\ \A c \in Calls :
       Observed(c, "connected") /\ Observed(c, "disconnected") /\ Released(c)

\* C7: once the callee has declined a call it did not answer, the caller's
\* Call eventually observes disconnected, and it never observes connected.
C7_DeclineDisconnects ==
  /\ (srv.st["b"] = "DECLINED") ~> Observed("a", "disconnected")
  /\ [](srv.st["b"] = "DECLINED" => ~Observed("a", "connected"))

\* the callee's reject has settled and the caller is disconnected
C7_Witness ==
  /\ srv.st["b"] = "DECLINED" /\ ~call["b"].listening
  /\ Observed("a", "disconnected") /\ ~Observed("a", "connected")

\* C8: an acknowledged inbound Call that was not answered has made no offer
\* and no join request and is not joined on this device, and once the alert
\* was sent the initiator's Call eventually emits ringing.
C8_AcknowledgeAlerts ==
  /\ [](srv.st["b"] = "NOTIFIED" /\ call["b"].joins = 0 =>
          /\ ~joinedOnThisDevice(call["b"].locus) /\ ~call["b"].peer
          /\ ~\E m \in net : m.call = "b" /\ m.op \in {"offer", "join", "create"})
  /\ (srv.st["b"] = "NOTIFIED") ~> Observed("a", "ringing")

\* the callee adopted the snapshot its alert returned, and the caller rang
C8_Witness ==
  /\ call["b"].locus.self = "NOTIFIED" /\ call["b"].joins = 0
  /\ ~joinedOnThisDevice(call["b"].locus)
  /\ Observed("a", "ringing")

\* C9: while a leave round trip is pending no second leave request is issued,
\* and every hangup invoked meanwhile settles with the pending leave's outcome.
C9_LeaveOnce ==
  \A c \in Calls :
    /\ Cardinality(OutstandingLeaves(c)) <= 1
    /\ \A e \in call[c].hangupLog : e.during => e.via = "leave"

\* C10: at most one join round trip (create or join) of a Call is outstanding.
C10_JoinExclusive == \A c \in Calls : Cardinality(OutstandingJoins(c)) <= 1

JoinPending(c) == \E m \in net : m.call = c /\ m.op \in {"offer", "create", "join"}

\* C11: an outbound Call that has no session yet and whose join round trip is
\* outstanding is not torn down by hangup: it keeps its listeners and its
\* session-update subscription until the join's snapshot has been adopted.
C11_HangupWaits ==
  \A c \in Calls :
    call[c].dialed /\ call[c].locus = NoLocus /\ JoinPending(c)
      => call[c].listening /\ call[c].mercury

\* C12: once hangup has stopped the local media, no response of a join that
\* was in flight then hands a remote description to the media adapter.
C12_MediaStaysReleased == \A c \in Calls : ~call[c].fedEnded

Stopped(s) == s.ended /\ ~s.peer /\ ~s.mediaLocal /\ ~s.mediaRemote

\* C13: when hangup issues a leave request the local media is already
\* stopped, and when the leave round trip fails every hangup that awaits it
\* settles as a rejection.
C13_HangupStopsMediaFirst ==
  [][\A c \in Calls :
       /\ OutstandingLeaves(c) = {} /\ OutstandingLeaves(c)' # {}
            => Stopped(call'[c])
       /\ \A m \in OutstandingLeaves(c) :
            ~m.ok /\ m \notin net' =>
              \A e \in call[c].hangupLog :
                e.via = "leave" /\ e.out = "pending"
                  => [e EXCEPT !.out = "fail"] \in call'[c].hangupLog]_vars

\* a hangup whose leave round trip failed: rejected, with the media stopped
C13_Witness ==
  \E c \in Calls :
    /\ \E e \in call[c].hangupLog : e.via = "leave" /\ e.out = "fail"
    /\ Stopped(call[c]) /\ call[c].listening

OutstandingRejects(c) == {m \in net : m.call = c /\ m.chain = "reject"}

\* C14: hangup on an inbound Call that is not joined on this device issues no
\* leave request and has a decline round trip outstanding, and when that round
\* trip has answered and its snapshot is reconciled the Call has dropped its
\* session-update subscription and its listeners.
C14_HangupRejects ==
  [][\A c \in Calls :
       /\ (/\ \E e \in call'[c].hangupLog \ call[c].hangupLog : e.out = "pending"
           /\ direction(call[c].locus) = "in"
           /\ ~joinedOnThisDevice(call[c].locus))
            => /\ OutstandingLeaves(c)' \subseteq OutstandingLeaves(c)
               /\ OutstandingRejects(c)' # {}
       /\ \A m \in OutstandingRejects(c) :
            m.ok /\ m \notin net' /\ OutstandingRejects(c)' = {}
              => /\ ~call'[c].listening /\ ~call'[c].mercury
                 /\ call'[c].locus.seq >= m.loc.seq]_vars

\* a hangup that was answered by the decline round trip, on a Call torn down
C14_Witness ==
  \E c \in Calls :
    /\ \E e \in call[c].hangupLog : e.via = "decline" /\ e.out = "ok"
    /\ call[c].locus.self = "DECLINED"
    /\ ~call[c].listening /\ ~call[c].mercury

Invoked(c, ops) == call'[c] # call[c] /\ call'[c].last \in ops

Untouched(c) ==
  /\ net' = net /\ srv' = srv
  /\ call'[c].locus = call[c].locus /\ call'[c].correlationId = call[c].correlationId
  /\ call'[c].status = call[c].status
  /\ call'[c].listening = call[c].listening /\ call'[c].mercury = call[c].mercury
  /\ call'[c].joins = call[c].joins /\ call'[c].rejectFlight = call[c].rejectFlight

\* C15: answer, reject and decline on a Call whose direction is `out`, and
\* answer on an inbound Call joined on this device with a live peer
\* connection, issue no request and leave session, correlationId, status and
\* listeners as they were.
C15_OutboundNoOps ==
  [][\A c \in Calls :
       /\ Invoked(c, {"answer", "reject", "decline"}) /\ direction(call[c].locus) = "out"
            => Untouched(c)
       /\ Invoked(c, {"answer"}) /\ joinedOnThisDevice(call[c].locus) /\ call[c].peer
            => Untouched(c)]_vars

\* answer was invoked on the inbound Call while connected with a live peer,
\* and reject on the outbound Call that has a session
C15_Witness ==
  /\ call["b"].last = "answer" /\ call["b"].peer /\ call["b"].joins = 1
  /\ joinedOnThisDevice(call["b"].locus) /\ net = {}
  /\ call["a"].last = "reject" /\ call["a"].locus # NoLocus /\ call["a"].listening

\* the step is one in which the chain that dial started is rejected: at
\* register(), at createOffer(), at the create round trip or at acceptAnswer()
DialRejected(c) ==
  \/ /\ ~call[c].dialed /\ call'[c].dialed
     /\ ~\E m \in net' : m.call = c /\ m.chain = "dial"
  \/ \E m \in net \ net' :
       /\ m.call = c /\ m.chain = "dial"
       /\ \/ m.op = "offer" /\ ~\E o \in net' : o.call = c /\ o.chain = "dial"
          \/ m.op = "create" /\ ~m.ok
          \/ m.op = "create" /\ m.ok
               /\ ~(hasMediaConnection(call'[c].locus) /\ call[c].peer)

Count(events, e) == Len(SelectSeq(events, LAMBDA v : v = e))

OutstandingUpdates(c) == {m \in net : m.call = c /\ m.chain = "update"}

Changes(c) == {call[c].changes[i] : i \in DOMAIN call[c].changes}

\* C17: at most one mute-flag update round trip (the update request, its
\* follow-up fetch and the fetches of its reconciliation) of a Call is
\* outstanding at any time.
C17_UpdateExclusive == \A c \in Calls : Cardinality(OutstandingUpdates(c)) <= 1

\* two invocations await the one round trip that is outstanding
C17_Witness ==
  /\ Len(call["a"].changes) = 2
  /\ \A ch \in Changes("a") : ch.st = "updating"
  /\ Cardinality(OutstandingUpdates("a")) = 1

\* every invocation has resolved, the adapter has nothing left to report and
\* no update round trip is outstanding
Quiet(c) ==
  /\ call[c].changes # <<>>
  /\ \A ch \in Changes(c) : ch.st = "resolved"
  /\ call[c].audio = call[c].sendingAudio /\ call[c].video = call[c].sendingVideo
  /\ OutstandingUpdates(c) = {}

\* C18: once all sending-media invocations of a Call have settled, the mute
\* flags last pushed to the session service are the negation of the Call's
\* sendingAudio and sendingVideo: no invocation's flags are dropped.
C18_FlagsNotDropped ==
  \A c \in Calls :
    Quiet(c) => srv.muted[c] = [audio |-> ~call[c].sendingAudio,
                                video |-> ~call[c].sendingVideo]

\* a toggle is the start or stop that negates the flag it read
IsToggle(ch, key) == ch.key = key /\ ch.value = ~ch.was[key]

TwoToggles(c, key) ==
  /\ Len(call[c].changes) = 2
  /\ \A ch \in Changes(c) : IsToggle(ch, key) /\ ch.st = "resolved"
  /\ call[c].changes[2].overlap

\* C19: when toggleSendingAudio was invoked twice on a connected Call, the
\* second time before the first had settled, and both have settled, the
\* Call's sendingAudio is what it was before the first invocation.
C19_TwoFlips ==
  \A c \in Calls :
    TwoToggles(c, "audio") => call[c].sendingAudio = call[c].changes[1].was.audio

OtherKey(key) == IF key = "audio" THEN "video" ELSE "audio"

\* what a toggle of `key` found when its result resolved: the toggled flag
\* flipped, the other one as it was, and the session's status strings those
\* of the flags (both media are received)
Agrees(ch, key) ==
  LET sent == [audio |-> ch.at.sendingAudio, video |-> ch.at.sendingVideo]
  IN /\ sent[key] = ~ch.was[key]
     /\ sent[OtherKey(key)] = ch.was[OtherKey(key)]
     /\ ch.at.audio = boolToStatus(sent.audio, TRUE)
     /\ ch.at.video = boolToStatus(sent.video, TRUE)

\* C20: when the result of toggleSendingAudio or toggleSendingVideo resolves
\* on a connected Call, the flag of the toggled medium is flipped, the other
\* medium's flag is unchanged, and the adopted session's audio and video
\* status strings are those of the Call's sending flags.
C20_ToggleAgrees ==
  \A c \in Calls : \A ch \in Changes(c) : \A key \in {"audio", "video"} :
    IsToggle(ch, key) /\ ch.st = "resolved" => Agrees(ch, key)

\* C21: a single start, stop or toggle of a sending flag issues no updateMedia
\* request before the adapter's notification and exactly one after it,
\* carrying audioMuted = not sendingAudio and videoMuted = not sendingVideo,
\* and makes no offer.
C21_OneMuteUpdate ==
  \A c \in Calls :
    Len(call[c].changes) = 1 =>
      /\ ~\E m \in net : m.call = c /\ m.op = "offer"
      /\ call[c].changes[1].st = "waiting" => call[c].pushed = <<>>
      /\ call[c].changes[1].st # "waiting" => call[c].pushed = <<muteFlags(call[c])>>

\* the one toggle of a Call has resolved after one request
C21_Witness ==
  /\ Len(call["a"].changes) = 1 /\ call["a"].changes[1].st = "resolved"
  /\ call["a"].changes[1].key = "video" /\ ~call["a"].sendingVideo
  /\ call["a"].pushed = <<[audio |-> FALSE, video |-> TRUE]>>

ReceiveInvoked(c) == Len(call'[c].receives) > Len(call[c].receives)

ReceiveNotified(c) ==
  /\ call'[c].receiving # call[c].receiving
  /\ ~\E m \in net \ net' : m.op = "offer"

NoRoundTrip(c) ==
  /\ net' = net /\ srv' = srv
  /\ call'[c].locus = call[c].locus /\ call'[c].pushed = call[c].pushed

\* C22: a start, stop or toggle of a receiving flag sets the flag asked of the
\* adapter and waits; the adapter's change notification resolves it; neither
\* step issues a request or replaces the session snapshot.
C22_ReceivingIsLocal ==
  [][\A c \in Calls :
       /\ ReceiveInvoked(c) =>
            LET e == call'[c].receives[Len(call'[c].receives)]
            IN /\ e.st = "waiting" /\ call'[c].offerToReceive[e.key] = e.value
               /\ NoRoundTrip(c)
       /\ ReceiveNotified(c) =>
            /\ \A i \in DOMAIN call'[c].receives :
                 LET e == call'[c].receives[i]
                 IN call'[c].receiving[e.key] # call[c].receiving[e.key]
                      => e.st = "resolved"
            /\ NoRoundTrip(c)]_vars

\* the caller stopped receiving video, and the notification resolved it
C22_Witness ==
  /\ Len(call["a"].receives) = 1 /\ call["a"].receives[1].st = "resolved"
  /\ call["a"].receives[1].key = "video" /\ ~call["a"].receiving.video
  /\ call["a"].status = "connected" /\ call["a"].pushed = <<>>

Live(s) == s.exists /\ s.listening

UrlsOf(s) ==
  {[side |-> side, of |-> s.streams[side]] :
     side \in {side \in {"local", "remote"} : s.streams[side] # 0}}

\* C23: while a Call is live each display URL is set exactly when its stream
\* is and was created for the stream the Call now holds, and no other created
\* URL is unreleased.
C23_UrlsInLockStep ==
  \A c \in Calls :
    Live(call[c]) =>
      /\ call[c].localUrl = call[c].localMediaStream
      /\ call[c].remoteUrl = call[c].mediaRemote
      /\ call[c].localMediaStream = (call[c].streams.local # 0)
      /\ call[c].mediaRemote = (call[c].streams.remote # 0)
      /\ call[c].urlOf = call[c].streams
      /\ call[c].urls = UrlsOf(call[c])

\* the caller's camera was swapped in mid-call: its second stream has the URL
C23_Witness ==
  /\ Live(call["a"]) /\ call["a"].status = "connected"
  /\ call["a"].streams.local > 1 /\ call["a"].streams.remote # 0
  /\ call["a"].urlOf = call["a"].streams /\ call["a"].flips > 0

Over(s) ==
  \/ s.status = "disconnected"
  \/ \E e \in s.hangupLog : e.out = "ok"
  \/ s.exists /\ ~s.listening

\* C24: once a Call has ended (its status is disconnected, or a hangup or a
\* reject of it has completed) its listeners and its subscription to session
\* events are detached, both display URLs are unset, and no created URL is
\* unreleased.
C24_EndReleasesUrls ==
  \A c \in Calls :
    Over(call[c]) =>
      /\ ~call[c].listening /\ ~call[c].mercury
      /\ ~call[c].localUrl /\ ~call[c].remoteUrl
      /\ call[c].urlOf = NoRefs /\ call[c].urls = {}

FacingUnknown(s) == ~s.video \/ s.facingMode \notin {"user", "environment"}

C25_WitnessUnknown ==
  /\ call["a"].thrown = "facing-mode" /\ call["a"].video /\ call["a"].localMediaStream

\* C26: once a Call's correlationId has a value, no step changes it.
C26_CorrelationIdSetOnce ==
  [][\A c \in Calls :
       call[c].correlationId # NoCorr
         => call'[c].correlationId = call[c].correlationId]_vars

\* the snapshots on their way to Call c
Incoming(c) == {m.loc : m \in {m \in net : m.call = c /\ m.dir = "cli" /\ m.loc # NoLocus}}

\* the verdicts the comparator may give Call state s on snapshot S
VerdictsOn(s, S) == IF s.locus = NoLocus THEN {"USE_INCOMING"} ELSE compare(s.locus, S)

\* Call c after its handlers have run _setLocus(S) under verdict v
Once(c, S, v) == setLocus(Begin(c), S, v, "none").x.s

\* the verdicts on S when it is reconciled again at once: the comparator
\* judges the same pair the same way
VerdictsAgain(c, s1, S, v) ==
  IF s1.locus = call[c].locus THEN {v} ELSE compare(s1.locus, S)

\* C27: reconciling a snapshot a second time, straight after the first, leaves
\* the Call as the first left it and emits no notification.
C27_ReconcileIdempotent ==
  \A c \in Calls : call[c].exists =>
    \A S \in Incoming(c) : \A v \in VerdictsOn(call[c], S) :
      \E s1 \in {[Once(c, S, v) EXCEPT !.emitted = <<>>]} :
        \A v2 \in VerdictsAgain(c, s1, S, v) :
          \E r \in {setLocus(Ctx(s1), S, v2, "none")} :
            /\ r.x.s = s1
            /\ v2 # "FETCH" => r.x.out = {}

\* the callee's Call is connected by a snapshot it adopted from an event, and
\* the same snapshot is on its way to it again as the response of its join
C27_Witness ==
  /\ call["b"].exists /\ call["b"].locus \in Incoming("b")
  /\ call["b"].status = "connected" /\ call["b"].emitted = <<"connected">>

AnyVerdict == {"USE_INCOMING", "FETCH", "IGNORE"}

\* C28: a Call that has no session adopts the snapshot it is given, whatever
\* the comparator would say of it, and fetches nothing.
C28_FirstSnapshotAdopted ==
  \A c \in Calls : call[c].exists /\ call[c].locus = NoLocus =>
    \A S \in Incoming(c) : \A v \in AnyVerdict :
      \E r \in {setLocus(Begin(c), S, v, "none")} :
        /\ r.x.s.locus = S /\ r.done
        /\ r.x.s.correlationId = call[c].correlationId
        /\ ~\E m \in r.x.out : m.op = "get"

\* the caller's Call has no session yet, and a snapshot later than the
\* session's first is on its way to it
C28_Witness ==
  /\ call["a"].exists /\ call["a"].locus = NoLocus /\ call["a"].listening
  /\ \E S \in Incoming("a") : S.seq > 1

Adoptable(c, S) == call[c].locus # NoLocus /\ "USE_INCOMING" \in compare(call[c].locus, S)

\* C29: when a Call that has a session is told by the comparator to use the
\* incoming snapshot, the snapshot becomes its session, and its correlationId
\* becomes that of this device's record in the snapshot if there is one and
\* stays as it was if not.
C29_AdoptIncoming ==
  \A c \in Calls : call[c].exists =>
    \A S \in {S \in Incoming(c) : Adoptable(c, S)} :
      \E r \in {setLocus(Begin(c), S, "USE_INCOMING", "none")} :
        /\ r.x.s.locus = S /\ r.done
        /\ r.x.s.correlationId =
             (IF hasDevice(S) THEN S.corr ELSE call[c].correlationId)

\* a snapshot the callee's Call may adopt holds a record of this device whose
\* correlationId is not the Call's
C29_Witness ==
  \E S \in Incoming("b") :
    /\ call["b"].exists /\ Adoptable("b", S) /\ hasDevice(S)
    /\ call["b"].correlationId # NoCorr /\ S.corr # call["b"].correlationId

\* a snapshot the callee's Call may adopt holds no record of this device
C29_WitnessNoDevice ==
  \E S \in Incoming("b") :
    /\ call["b"].exists /\ Adoptable("b", S) /\ ~hasDevice(S)
    /\ call["b"].correlationId # NoCorr

\* the snapshots fetched for Call c that are on their way to it
FetchedCopies(c) == {m \in net : m.call = c /\ m.dir = "cli" /\ m.op = "get"}

\* the results that await the round trips of `chain`
Awaiting(s, chain) ==
  CASE chain = "hangup" -> {e \in s.hangupLog : e.via = "leave" /\ e.out = "pending"}
    [] chain = "reject" -> {e \in s.hangupLog : e.via = "decline" /\ e.out = "pending"}
    [] chain = "update" -> {i \in DOMAIN s.changes : s.changes[i].st = "updating"}
    [] OTHER -> {}

Failed(s, chain) ==
  CASE chain = "hangup" -> {e \in s.hangupLog : e.via = "leave" /\ e.out = "fail"}
    [] chain = "reject" -> {e \in s.hangupLog : e.via = "decline" /\ e.out = "fail"}
    [] chain = "update" -> {i \in DOMAIN s.changes : s.changes[i].st = "rejected"}
    [] OTHER -> {}

\* what awaited the round trips of `chain` in s0 has failed in s1
FailsAwaiting(s0, s1, chain) ==
  CASE chain \in {"hangup", "reject"} ->
         \A e \in Awaiting(s0, chain) : [e EXCEPT !.out = "fail"] \in s1.hangupLog
    [] chain = "update" ->
         \A i \in Awaiting(s0, chain) : s1.changes[i].st = "rejected"
    [] OTHER -> TRUE

\* C30: when the comparator says FETCH of a fetched snapshot the session is
\* fetched again and nothing settles, however many fetches went before; when
\* it says anything else the reconciliation completes, with the snapshot as the
\* session if it is to be used; a fetch that fails leaves the session as it was
\* and fails what awaits it.
C30_RefetchUntilAccepted ==
  \A c \in Calls : \A m \in FetchedCopies(c) :
    IF ~m.ok
      THEN \E y \in {failed(Begin(c), m.chain)} :
             /\ y.s.locus = call[c].locus /\ y.out = {}
             /\ Awaiting(y.s, m.chain) = {}
             /\ FailsAwaiting(call[c], y.s, m.chain)
      ELSE \A v \in compare(call[c].locus, m.loc) :
             \E y \in {onResponse(Begin(c), m.chain, m.loc, v)} :
               IF v = "FETCH"
                 THEN /\ y.s.locus = call[c].locus
                      /\ \E o \in y.out : o.op = "get" /\ o.chain = m.chain
                                             /\ o.loc = call[c].locus
                      /\ Awaiting(y.s, m.chain) = Awaiting(call[c], m.chain)
                 ELSE /\ y.s.locus = (IF v = "USE_INCOMING" THEN m.loc ELSE call[c].locus)
                      /\ ~\E o \in y.out : o.op = "get"
                      /\ Awaiting(y.s, m.chain) = {}
                      /\ Failed(y.s, m.chain) = Failed(call[c], m.chain)

\* a hangup awaits its second fetch in a row, and the copy it fetched may be
\* judged FETCH once more
C30_Witness ==
  \E m \in FetchedCopies("a") :
    /\ call["a"].refetches > 0 /\ m.ok /\ m.chain = "hangup"
    /\ Awaiting(call["a"], "hangup") # {}
    /\ "FETCH" \in compare(call["a"].locus, m.loc)

\* a fetch that a hangup awaits has failed
C30_WitnessFailed ==
  \E m \in FetchedCopies("a") :
    ~m.ok /\ m.chain = "hangup" /\ Awaiting(call["a"], "hangup") # {}

\* C31: once a Call has a session, each replacement of it is by one of the
\* snapshots on their way to the Call, whole, and by a newer one than the
\* session it replaces.
C31_SessionMonotonic ==
  [][\A c \in Calls :
       call[c].locus # NoLocus /\ call'[c].locus # call[c].locus =>
         /\ call'[c].locus \in Incoming(c)
         /\ call'[c].locus.seq > call[c].locus.seq]_vars

\* the caller's Call holds a later snapshot of the session while an earlier
\* one is still on its way to it
C31_Witness ==
  /\ call["a"].locus # NoLocus /\ call["a"].locus.seq > 1
  /\ \E S \in Incoming("a") : S.seq < call["a"].locus.seq

\* the steps a renegotiation may take right after step `prev`
After(prev) ==
  CASE prev = "createOffer" -> {"updateMedia", "error"}
    [] prev = "updateMedia" -> {"get", "error"}
    [] prev = "get" -> {"get", "setLocus", "error"}
    [] prev = "setLocus" -> {"acceptAnswer", "error"}
    [] prev = "acceptAnswer" -> {"accepted", "error"}
    [] OTHER -> {}

InOrder(trail) ==
  /\ trail # <<>> => trail[1] = "createOffer"
  /\ \A i \in 2..Len(trail) : trail[i] \in After(trail[i - 1])

\* C32: a renegotiation makes its offer, pushes it, polls, adopts the polled
\* snapshot and hands over the remote description, in this order and no
\* further once a step failed; the description handed over is that of a
\* session no older than the polled snapshot.
C32_RenegotiationInOrder ==
  \A c \in Calls :
    /\ InOrder(call[c].trail)
    /\ call[c].fed.polled # 0 => call[c].fed.from >= call[c].fed.polled

StepsInOrder == \A c \in Calls : InOrder(call[c].trail)

\* the renegotiation of Call c has something under way
Renegotiating(c, msgs) == \E m \in msgs : m.call = c /\ m.chain = "renegotiate"

\* the stage a failed renegotiation failed at
FailedAt(s) == s.trail[Len(s.trail) - 1]

\* C33: the step in which a renegotiation fails, whatever stage it is at,
\* triggers `error` on the Call once and leaves nothing of the renegotiation
\* under way; a failed renegotiation stays as it is until the adapter asks
\* for another one.
C33_FailureIsOneError ==
  [][\A c \in Calls :
       /\ call[c].stage # "failed" /\ call'[c].stage = "failed" =>
            /\ call'[c].errors = call[c].errors + 1
            /\ Cardinality({i \in DOMAIN call'[c].emitted :
                              call'[c].emitted[i] = "error"}) = 1
            /\ ~Renegotiating(c, net')
       /\ call[c].stage = "failed" =>
            \/ call'[c].stage = "failed" /\ call'[c].trail = call[c].trail
                  /\ ~Renegotiating(c, net')
            \/ NegotiationNeeded(c)]_vars

C33_Witness ==
  /\ call["a"].stage = "failed" /\ FailedAt(call["a"]) = "get"
  /\ call["a"].pollErrors = MaxErrors
  /\ call["a"].emitted = <<"error">>

C33_WitnessOffer ==
  call["a"].stage = "failed" /\ FailedAt(call["a"]) = "createOffer"
    /\ call["a"].emitted = <<"error">>

C33_WitnessUpdate ==
  call["a"].stage = "failed" /\ FailedAt(call["a"]) = "updateMedia"
    /\ call["a"].locus # NoLocus /\ call["a"].emitted = <<"error">>

C33_WitnessAccept ==
  call["a"].stage = "failed" /\ FailedAt(call["a"]) = "acceptAnswer"
    /\ call["a"].emitted = <<"error">>

\* the responses of the poll of Call c that are on their way to it
Polled(c) ==
  {m \in net : m.call = c /\ m.dir = "cli" /\ m.op = "get" /\ m.chain = "renegotiate"}

AsExpected(s, m) ==
  m.ok /\ m.loc.audio = expectedStatus(s).audio /\ m.loc.video = expectedStatus(s).video

\* the step Call c takes next after the steps of `trail`, "none" if it takes none
NextStep(c, trail) ==
  IF Len(call'[c].trail) > Len(trail) THEN call'[c].trail[Len(trail) + 1] ELSE "none"

\* C34: a poll goes on to adopt a snapshot only if the fetch succeeded and
\* the snapshot's audio and video status are the expected ones; every other
\* response counts as an error, after which the poll fetches again while
\* fewer than MaxErrors errors were counted, and fails the renegotiation at
\* the MaxErrors-th.
C34_BoundedPoll ==
  [][\A c \in Calls :
       call[c].stage = "polling" /\ call'[c].trail # call[c].trail =>
         LET step == NextStep(c, call[c].trail)
         IN \/ /\ step = "setLocus"
               /\ \E m \in Polled(c) : AsExpected(call[c], m)
               /\ call'[c].pollErrors = call[c].pollErrors
            \/ /\ step \in {"get", "error"}
               /\ \E m \in Polled(c) : ~AsExpected(call[c], m)
               /\ call'[c].pollErrors = call[c].pollErrors + 1
               /\ call'[c].pollErrors <= MaxErrors
               /\ step = "get" <=> call'[c].pollErrors < MaxErrors
               /\ step = "get" => call'[c].stage = "polling"
               /\ step = "error" => call'[c].stage = "failed" /\ ~Renegotiating(c, net')]_vars

C34_Witness ==
  /\ call["a"].stage = "accepting" /\ call["a"].pollErrors = MaxErrors - 1
  /\ call["a"].locus.audio = expectedStatus(call["a"]).audio

C34_WitnessGivesUp ==
  /\ call["a"].stage = "failed" /\ call["a"].pollErrors = MaxErrors
  /\ call["a"].locus # NoLocus
  /\ call["a"].locus.audio # expectedStatus(call["a"]).audio

\* _onLocusEvent takes the event up for this Call
Matches(s, l) ==
  \/ s.locus # NoLocus /\ l.url = s.locus.url
  \/ s.correlationId # NoCorr /\ hasDevice(l) /\ s.correlationId = l.corr

LeftAsIs(c) ==
  /\ call'[c].locus = call[c].locus
  /\ call'[c].correlationId = call[c].correlationId
  /\ call'[c].status = call[c].status
  /\ call'[c].emitted = <<>>

\* C35: an event that has neither the url of the Call's session nor, in this
\* device's record, the Call's correlationId leaves the Call's session,
\* correlationId and status as they are and triggers nothing, whether it is
\* an event of the Call's session or of another call.
C35_OtherEventsIgnored ==
  [][\A c \in Calls :
       /\ \A l \in ForeignEvents :
            ForeignEvent(c, l) /\ ~Matches(call[c], l) => LeftAsIs(c)
       /\ \A m \in net :
            m.call = c /\ call[c].exists /\ Event(m) /\ ~Matches(call[c], m.loc)
              => LeftAsIs(c)]_vars

C35_Witness ==
  /\ call["a"].last = "foreign" /\ call["a"].status = "connected"
  /\ call["a"].correlationId # NoCorr /\ call["a"].thrown = "none"

C35_WitnessNoRecord ==
  /\ call["a"].last = "foreign" /\ call["a"].status = "connected"
  /\ call["a"].thrown = "device"

\* the result of the i-th sending / receiving invocation on Call c has settled
SendingSettled(c, i) == call[c].changes[i].st \in {"resolved", "rejected"}

ReceivingSettled(c, i) == call[c].receives[i].st = "resolved"

\* C36: the result of every start/stop/toggle sending or receiving invocation
\* settles eventually.
C36_TogglesSettle ==
  \A i \in 1..MaxToggles :
    /\ (Len(call["a"].changes) >= i) ~> (Len(call["a"].changes) >= i /\ SendingSettled("a", i))
    /\ (Len(call["a"].receives) >= i) ~>
         (Len(call["a"].receives) >= i /\ ReceivingSettled("a", i))

====
